---- MODULE Spec2Model ----
(***************************************************************************)
(* Inference-serving pipeline of the lung disease classifier: the Flask    *)
(* server (app.py, backed by model.py) and the dependency-free server      *)
(* (simple_app.py, backed by simple_model.py).                             *)
(*                                                                         *)
(* Strings and file contents are sequences of byte values, so that the     *)
(* extension, base-name, signature and digest computations are carried out *)
(* on the bytes as the code carries them out.  Probabilities are fixed     *)
(* point numbers: draws in thousandths, distributions in millionths.       *)
(***************************************************************************)
EXTENDS Integers, Sequences, FiniteSets, TLC

VARIABLES
    variant,    \* which server program this process runs: "flask" | "simple"
    model,      \* the global `model`: 0 is None, k > 0 the k-th instance built
    loads,      \* constructor runs (load_or_create_model / load_simple_model) in this process
    rng,        \* state of the process-wide generator of module `random`
    dirs,       \* temporary directories that exist (tempfile.mkdtemp)
    files,      \* the files on disk: path -> [head, size, intact, by]
    seen,       \* every mock prediction made so far: {[name, size, res]}
    pc,         \* per worker: position in its handler
    req,        \* per worker: the request being handled
    temp_dir,   \* per worker: local `temp_dir` (0: none)
    file_path,  \* per worker: local `file_path` (<<>>: not assigned)
    exc,        \* per worker: an exception is propagating
    valid,      \* per worker: what the image validator returned ("none" before it
                \* ran, "raised" when it raised instead of returning)
    used,       \* per worker: the backend instance its prediction used (0: none)
    ctor,       \* per worker: this request ran the backend constructor
    result,     \* per worker: the prediction result (NoResult before)
    was_loaded, \* per worker: `model is not None` held when its request arrived
    resp        \* per worker: the responses sent, in order

vars == <<variant, model, loads, rng, dirs, files, seen, pc, req, temp_dir,
          file_path, exc, valid, used, ctor, result, was_loaded, resp>>

---------------------------------------------------------------------------
(* Bounds of the model *)

NumWorkers == 2    \* request slots (threads of the Flask development server)
MaxDirs == 2       \* names tempfile.mkdtemp can choose from
PrngModulus == 256 \* size of the generator's state space
Milli == 1000      \* resolution of a draw: 1/1000
Micro == 1000000   \* resolution of a probability: 1/1000000

Workers == 1 .. NumWorkers
DirIds == 1 .. MaxDirs

---------------------------------------------------------------------------
(* Byte strings *)

Range(s) == {s[i] : i \in DOMAIN s}

Max(S) == CHOOSE x \in S : \A y \in S : y <= x

\* str.lower()
Lower(s) == [i \in DOMAIN s |-> IF s[i] \in 65 .. 90 THEN s[i] + 32 ELSE s[i]]

\* str.rfind(c) + 1: the 1-based index of the last c, 0 when absent
RFind(s, c) == Max({0} \cup {i \in DOMAIN s : s[i] = c})

\* bytes.startswith(prefix)
StartsWith(s, prefix) ==
    /\ Len(prefix) <= Len(s)
    /\ SubSeq(s, 1, Len(prefix)) = prefix

Tail2(s, i) == SubSeq(s, i, Len(s))

RECURSIVE Decimal(_)
\* str(n) of a natural number
Decimal(n) == IF n < 10 THEN <<48 + n>> ELSE Decimal(n \div 10) \o <<48 + (n % 10)>>

Dot == 46
Slash == 47
Underscore == 95

\* os.path.basename
basename(p) == Tail2(p, RFind(p, Slash) + 1)

\* os.path.splitext(p)[1]: from the last dot of the last component, unless
\* only dots precede it there
splitext_ext(p) ==
    LET sep == RFind(p, Slash)
        dot == RFind(p, Dot)
    IN IF dot > sep /\ \E i \in (sep + 1) .. (dot - 1) : p[i] # Dot
       THEN Tail2(p, dot)
       ELSE <<>>

---------------------------------------------------------------------------
(* Configuration of the two servers *)

EXT_png == <<112, 110, 103>>
EXT_jpg == <<106, 112, 103>>
EXT_jpeg == <<106, 112, 101, 103>>
EXT_gif == <<103, 105, 102>>
EXT_bmp == <<98, 109, 112>>

\* app.py: ALLOWED_EXTENSIONS
ALLOWED_EXTENSIONS == {EXT_png, EXT_jpg, EXT_jpeg, EXT_gif}

\* simple_model.py: valid_extensions (each with its leading dot)
valid_extensions == {<<Dot>> \o e : e \in {EXT_png, EXT_jpg, EXT_jpeg, EXT_gif, EXT_bmp}}

\* app.py: MAX_FILE_SIZE, also MAX_CONTENT_LENGTH
MAX_FILE_SIZE == 16 * 1024 * 1024

\* app.py: UPLOAD_FOLDER, as a directory id distinct from every temporary directory
UPLOAD_FOLDER == 0

NUM_CLASSES == 3
CLASS_LABELS == <<"Lung Opacity", "Normal", "Viral Pneumonia">>
\* CLASS_NAMES maps the 0-based class index i to CLASS_NAMES[i + 1]
CLASS_NAMES == <<"Lung Opacity", "Normal", "Viral Pneumonia">>

\* File signatures
SIG_PNG == <<137, 80, 78, 71>>
SIG_JPEG == <<255, 216>>
SIG_GIF87a == <<71, 73, 70, 56, 55, 97>>
SIG_GIF89a == <<71, 73, 70, 56, 57, 97>>
SIG_BMP == <<66, 77>>
SIG_TIFF == <<73, 73, 42, 0>>

---------------------------------------------------------------------------
(* Files.  A file is [head, size, intact]: its first bytes (at most 10 are *)
(* ever read), its length in bytes, and whether the bytes after the        *)
(* signature form a well-formed image of the format the signature names.   *)

HeaderLen == 10

\* f.read(10)
read_header(f) == SubSeq(f.head, 1, IF Len(f.head) < HeaderLen THEN Len(f.head) ELSE HeaderLen)

\* simple_model.py: the signature test of validate_image_simple
known_signature(header) ==
    \/ StartsWith(header, SIG_PNG)
    \/ StartsWith(header, SIG_JPEG)
    \/ StartsWith(header, SIG_GIF87a)
    \/ StartsWith(header, SIG_GIF89a)
    \/ StartsWith(header, SIG_BMP)

\* simple_model.py: validate_image_simple(img_path) on the disk `fs`
validate_image_simple(fs, img_path) ==
    IF img_path \notin DOMAIN fs THEN FALSE
    ELSE IF splitext_ext(Lower(img_path[2])) \notin valid_extensions THEN FALSE
    ELSE IF fs[img_path].size = 0 THEN FALSE
    ELSE known_signature(read_header(fs[img_path]))

\* validate_image_simple lines 22-29: the path exists and its extension is a
\* valid one, so that the validator goes on to os.path.getsize
reaches_getsize(fs, img_path) ==
    /\ img_path \in DOMAIN fs
    /\ splitext_ext(Lower(img_path[2])) \in valid_extensions

\* PIL.Image.open followed by verify(): Pillow identifies the format from the
\* content alone, among every format it has a plugin for (TIFF stands for the
\* ones beyond the four of the simple validator), and rejects malformed data
PIL_identifies(f) ==
    /\ f.size > 0
    /\ f.intact
    /\ \/ known_signature(read_header(f))
       \/ StartsWith(read_header(f), SIG_TIFF)

\* app.py: validate_image(file_path) on the disk `fs`; every exception is False
validate_image(fs, path) ==
    IF path \notin DOMAIN fs THEN FALSE ELSE PIL_identifies(fs[path])

allowed_file_any(filename) == Dot \in Range(filename)

\* app.py: allowed_file(filename)
allowed_file(filename) ==
    /\ Dot \in Range(filename)
    /\ Lower(Tail2(filename, RFind(filename, Dot) + 1)) \in ALLOWED_EXTENSIONS

RECURSIVE strip_left(_)
strip_left(s) ==
    IF s # <<>> /\ Head(s) \in {Dot, Underscore} THEN strip_left(Tail(s)) ELSE s

RECURSIVE strip_right(_)
strip_right(s) ==
    IF s # <<>> /\ s[Len(s)] \in {Dot, Underscore}
    THEN strip_right(SubSeq(s, 1, Len(s) - 1)) ELSE s

\* werkzeug.utils.secure_filename on names made of letters, digits, '.', '_'
\* and '/': each separator becomes '_', then leading and trailing '.' and '_' go
secure_filename(filename) ==
    strip_right(strip_left(
        [i \in DOMAIN filename |-> IF filename[i] = Slash THEN Underscore ELSE filename[i]]))

---------------------------------------------------------------------------
(* The mock backend: simple_model.generate_deterministic_prediction *)

\* f"{filename}_{filesize}".encode()
hash_input(filename, filesize) == filename \o <<Underscore>> \o Decimal(filesize)

RECURSIVE digest(_)
\* hashlib.md5(...).hexdigest(): a fold over every byte of the input
digest(bytes) ==
    IF bytes = <<>> THEN 7
    ELSE (digest(SubSeq(bytes, 1, Len(bytes) - 1)) * 31 + bytes[Len(bytes)]) % 65536

\* int(hash_digest[:8], 16): the number the leading hexadecimal digits of the
\* digest spell (here the leading two of its four)
seed_of(hash_digest) == hash_digest \div 256

\* random.seed(seed): the generator state a seed sets
random_seed(seed) == seed % PrngModulus

\* one step of the generator
random_next(s) == (5 * s + 3) % PrngModulus

\* random.uniform(0.1, 0.9) = 0.1 + 0.8 * random(), in thousandths, from the
\* state the generator has after the step
uniform(s) == (Milli \div 10) + ((((8 * Milli) \div 10) * s) \div PrngModulus)

\* [random.uniform(0.1, 0.9) for _ in range(NUM_CLASSES)] from state s
RECURSIVE draws(_, _)
draws(s, n) == IF n = 0 THEN <<>> ELSE <<uniform(random_next(s))>> \o draws(random_next(s), n - 1)

RECURSIVE advance(_, _)
advance(s, n) == IF n = 0 THEN s ELSE advance(random_next(s), n - 1)

RECURSIVE Sum(_)
Sum(s) == IF s = <<>> THEN 0 ELSE Head(s) + Sum(Tail(s))

normalise_by_largest(probs) ==
    LET largest == Max(Range(probs))
    IN [i \in DOMAIN probs |-> (probs[i] * Micro + largest \div 2) \div largest]

\* [p / total for p in probs], rounded to the nearest millionth
normalise(probs) ==
    LET total == Sum(probs)
    IN [i \in DOMAIN probs |-> (probs[i] * Micro + total \div 2) \div total]

RECURSIVE list_max(_)
\* max(probs)
list_max(probs) ==
    IF Len(probs) = 1 THEN probs[1]
    ELSE LET m == list_max(Tail(probs)) IN IF probs[1] >= m THEN probs[1] ELSE m

RECURSIVE list_index(_, _)
\* probs.index(v), 0-based: the first position holding v
list_index(probs, v) == IF Head(probs) = v THEN 0 ELSE 1 + list_index(Tail(probs), v)

RECURSIVE list_rindex(_, _)
list_rindex(probs, v) ==
    IF probs[Len(probs)] = v THEN Len(probs) - 1
    ELSE list_rindex(SubSeq(probs, 1, Len(probs) - 1), v)

\* probs.index(max(probs))
index_of_max(probs) == list_index(probs, list_max(probs))

RECURSIVE argmax_scan(_, _, _)
\* the scan of numpy.argmax: position i replaces the best so far only when
\* its value is strictly larger
argmax_scan(predictions, i, best) ==
    IF i > Len(predictions) THEN best - 1
    ELSE argmax_scan(predictions, i + 1,
                     IF predictions[i] > predictions[best] THEN i ELSE best)

np_argmax_last(predictions) == list_rindex(predictions, list_max(predictions))

\* np.argmax(predictions[0]), 0-based
np_argmax(predictions) == argmax_scan(predictions, 2, 1)

NoResult == [class |-> "", confidence |-> 0, all_predictions |-> <<>>]

model_CLASS_NAMES_swapped == <<"Lung Opacity", "Viral Pneumonia", "Normal">>

\* model.py: CLASS_LABELS and CLASS_NAMES, the latter as CLASS_NAMES above
model_CLASS_LABELS == <<"Lung Opacity", "Normal", "Viral Pneumonia">>
model_CLASS_NAMES == <<"Lung Opacity", "Normal", "Viral Pneumonia">>

\* the dict a backend returns from its constants `names` and `labels`;
\* all_predictions[i + 1] is the value under key labels[i] for i in
\* range(len(labels))
result_dict_of(names, labels, idx, probs) ==
    [class |-> names[idx + 1],
     confidence |-> probs[idx + 1],
     all_predictions |-> [i \in 1 .. Len(labels) |-> probs[i]]]

\* simple_model.py lines 78-85
result_dict(idx, probs) == result_dict_of(CLASS_NAMES, CLASS_LABELS, idx, probs)

\* simple_model.py lines 67-85, from the generator state s left by random.seed
mock_result(s) ==
    LET probs == normalise(draws(s, NUM_CLASSES))
    IN result_dict(index_of_max(probs), probs)

\* model.py lines 88-103, for the network output `predictions`
trained_result(predictions) ==
    result_dict_of(model_CLASS_NAMES, model_CLASS_LABELS, np_argmax(predictions), predictions)

\* Outputs of the softmax layer the model draws from (the weights are whatever
\* the loaded or freshly initialised network has), in millionths
Softmax ==
    {<<Micro \div 2, Micro \div 2, 0>>,
     <<Micro \div 5, 2 * (Micro \div 5), Micro - 3 * (Micro \div 5)>>,
     <<Micro \div 10, Micro \div 5, Micro - (Micro \div 10) - (Micro \div 5)>>,
     <<Micro - (Micro \div 4) - (Micro \div 8), Micro \div 4, Micro \div 8>>}

---------------------------------------------------------------------------
(* Requests a client can send *)

NAME_empty == <<>>
NAME_png == <<97, 46, 112, 110, 103>>                \* a.png
NAME_txt == <<97, 46, 116, 120, 116>>                \* a.txt
NAME_bmp == <<97, 46, 98, 109, 112>>                 \* a.bmp
NAME_sub == <<100, 47, 97, 46, 112, 110, 103>>       \* d/a.png
NAME_up == <<46, 46, 47, 97, 46, 112, 110, 103>>     \* ../a.png
NAME_abs == <<47, 116, 109, 112, 47, 97, 46, 112, 110, 103>>  \* /tmp/a.png

SmallSize == 35
ImageSize == 70
BigSize == 20 * 1024 * 1024

FILE_empty == [head |-> <<>>, size |-> 0, intact |-> FALSE]
FILE_text == [head |-> <<104, 101, 108, 108, 111>>, size |-> 5, intact |-> FALSE]
FILE_png == [head |-> SIG_PNG \o <<13, 10, 26, 10>>, size |-> ImageSize, intact |-> TRUE]
FILE_jpeg == [head |-> SIG_JPEG \o <<255, 224>>, size |-> ImageSize, intact |-> TRUE]
FILE_gif == [head |-> SIG_GIF89a, size |-> SmallSize, intact |-> TRUE]
FILE_bmp == [head |-> SIG_BMP \o <<35, 0>>, size |-> SmallSize, intact |-> TRUE]
FILE_tiff == [head |-> SIG_TIFF, size |-> ImageSize, intact |-> TRUE]
FILE_big == [head |-> SIG_PNG \o <<13, 10, 26, 10>>, size |-> BigSize, intact |-> TRUE]

\* The uploads a client sends: a declared filename with a content
Uploads ==
    {<<NAME_png, f>> : f \in {FILE_empty, FILE_text, FILE_png, FILE_jpeg, FILE_gif,
                              FILE_bmp, FILE_tiff, FILE_big}}
    \cup {<<NAME_bmp, FILE_bmp>>, <<NAME_bmp, FILE_png>>}
    \cup {<<NAME_txt, FILE_png>>, <<NAME_txt, FILE_text>>}
    \cup {<<NAME_sub, FILE_png>>, <<NAME_empty, FILE_png>>}
    \cup {<<NAME_up, FILE_png>>, <<NAME_abs, FILE_png>>}

IdleReq ==
    [method |-> "", path |-> "", ctype |-> "", has_file |-> FALSE,
     filename |-> <<>>, file |-> FILE_empty]

GetRequests ==
    {[IdleReq EXCEPT !.method = "GET", !.path = p] : p \in {"/", "/index.html", "/health", "/upload", "/nope"}}

\* ctype: "multipart" is multipart/form-data with its boundary parameter,
\* "multipart-noboundary" the same without it, "other" any other type
PostRequests ==
    {[IdleReq EXCEPT !.method = "POST", !.path = p, !.ctype = c] :
        p \in {"/upload", "/api/predict", "/nope"},
        c \in {"multipart", "multipart-noboundary", "other"}}
    \cup
    {[method |-> "POST", path |-> p, ctype |-> "multipart", has_file |-> TRUE,
      filename |-> u[1], file |-> u[2]] :
        p \in {"/upload", "/api/predict"}, u \in Uploads}

Requests == GetRequests \cup PostRequests

\* The requests that are handled concurrently with one another: they
\* contend for the backend and for the upload path.  Any other request is
\* handled while no other is in flight.
Background ==
    {[IdleReq EXCEPT !.method = "GET", !.path = "/health"]}
    \cup
    {[method |-> "POST", path |-> p, ctype |-> "multipart", has_file |-> TRUE,
      filename |-> NAME_png, file |-> f] :
        p \in {"/api/predict"}, f \in {FILE_png, FILE_text}}

\* Content-Length of a request: the file's bytes and the multipart framing
content_length(q) == IF q.has_file THEN q.file.size + 200 ELSE IF q.method = "POST" THEN 50 ELSE 0

---------------------------------------------------------------------------
(* State *)

NoPath == <<>>

EmptyDisk == [p \in {} |-> FILE_empty]

\* the disk after writing file f at path p
write(fs, p, f) == [x \in DOMAIN fs \cup {p} |-> IF x = p THEN f ELSE fs[x]]

\* the disk after os.remove(p)
remove(fs, p) == [x \in DOMAIN fs \ {p} |-> fs[x]]

\* the disk after shutil.rmtree(d)
rmtree(fs, d) == [x \in {y \in DOMAIN fs : y[1] # d} |-> fs[x]]

stored(q, t) == [head |-> q.file.head, size |-> q.file.size, intact |-> q.file.intact, by |-> t]

partial(t) == [head |-> <<>>, size |-> 0, intact |-> FALSE, by |-> t]

\* The generator of a fresh process is seeded from the operating system
BootStates == {0, PrngModulus - 1}

Init ==
    /\ variant \in {"flask", "simple"}
    /\ model = 0
    /\ loads = 0
    /\ rng \in (IF variant = "simple" THEN BootStates ELSE {0})
    /\ dirs = {}
    /\ files = EmptyDisk
    /\ seen = {}
    /\ pc = [t \in Workers |-> "idle"]
    /\ req = [t \in Workers |-> IdleReq]
    /\ temp_dir = [t \in Workers |-> 0]
    /\ file_path = [t \in Workers |-> NoPath]
    /\ exc = [t \in Workers |-> ""]
    /\ valid = [t \in Workers |-> "none"]
    /\ used = [t \in Workers |-> 0]
    /\ ctor = [t \in Workers |-> FALSE]
    /\ result = [t \in Workers |-> NoResult]
    /\ was_loaded = [t \in Workers |-> FALSE]
    /\ resp = [t \in Workers |-> <<>>]

Response(status, kind, body) == [status |-> status, kind |-> kind, body |-> body]

\* worker t sends response r and its handler returns
Finish(t, r) ==
    /\ resp' = [resp EXCEPT ![t] = Append(@, r)]
    /\ pc' = [pc EXCEPT ![t] = "done"]

Goto(t, l) == pc' = [pc EXCEPT ![t] = l]

\* worker t raises e: control passes to the handler's except clause
Raise(t, e, l) ==
    /\ exc' = [exc EXCEPT ![t] = e]
    /\ pc' = [pc EXCEPT ![t] = l]

IsApi(t) == req[t].path = "/api/predict"

---------------------------------------------------------------------------
(* The server loop *)

\* A request arrives at an idle worker.  http.server.HTTPServer handles one
\* request at a time; the Flask development server gives each its own thread.
Accept(t, q) ==
    /\ pc[t] = "idle"
    /\ \A u \in Workers : u < t => pc[u] # "idle"
    /\ \A u \in Workers \ {t} : pc[u] # "idle" => q \in Background /\ req[u] \in Background
    /\ variant = "simple" => \A u \in Workers \ {t} : pc[u] = "idle"
    /\ req' = [req EXCEPT ![t] = q]
    /\ was_loaded' = [was_loaded EXCEPT ![t] = (model # 0)]
    /\ Goto(t, "recv")
    /\ UNCHANGED <<variant, model, loads, rng, dirs, files, seen, temp_dir,
                   file_path, exc, valid, used, ctor, result, resp>>

\* The handler has returned; the worker forgets the request
Release(t) ==
    /\ pc[t] = "done"
    /\ pc' = [pc EXCEPT ![t] = "idle"]
    /\ req' = [req EXCEPT ![t] = IdleReq]
    /\ temp_dir' = [temp_dir EXCEPT ![t] = 0]
    /\ file_path' = [file_path EXCEPT ![t] = NoPath]
    /\ exc' = [exc EXCEPT ![t] = ""]
    /\ valid' = [valid EXCEPT ![t] = "none"]
    /\ used' = [used EXCEPT ![t] = 0]
    /\ ctor' = [ctor EXCEPT ![t] = FALSE]
    /\ result' = [result EXCEPT ![t] = NoResult]
    /\ resp' = [resp EXCEPT ![t] = <<>>]
    /\ was_loaded' = [was_loaded EXCEPT ![t] = FALSE]
    /\ UNCHANGED <<variant, model, loads, rng, dirs, files, seen>>

\* The process is stopped and started again: module globals are initialised
\* anew, the disk keeps what was on it
Restart ==
    /\ \A t \in Workers : pc[t] = "idle"
    /\ model # 0
    /\ model' = 0
    /\ loads' = 0
    /\ rng' \in (IF variant = "simple" THEN BootStates ELSE {0})
    /\ UNCHANGED <<variant, was_loaded, dirs, files, seen, pc, req, temp_dir, file_path,
                   exc, valid, used, ctor, result, resp>>

---------------------------------------------------------------------------
(* app.py: the Flask server *)

G1 == <<variant, model, loads, rng, dirs, files, seen>>

\* flash(message); return redirect(request.url): the Location of the redirect
\* is the URL of the request being answered
redirect(t, message) ==
    [status |-> 302, kind |-> "redirect", body |-> message, location |-> req[t].path]

\* the error reply of a view: /api/predict answers JSON with a status,
\* /upload flashes the message and redirects to request.url
flask_error(t, status, message) ==
    IF IsApi(t) THEN Response(status, "json", message)
    ELSE redirect(t, message)

\* the paths at which a GET request is answered with the upload form
form_paths == IF variant = "flask" THEN {"/"} ELSE {"/", "/index.html"}

\* the rules of app.url_map: path -> methods
flask_routes ==
    [p \in {"/", "/health", "/upload", "/api/predict"} |->
        IF p \in {"/", "/health"} THEN {"GET"} ELSE {"POST"}]

\* @app.route: URL map of the application
flask_dispatch(t) ==
    /\ variant = "flask"
    /\ pc[t] = "recv"
    /\ LET q == req[t]
       IN IF q.path \notin DOMAIN flask_routes
          THEN Finish(t, Response(404, "html", "Not Found"))
          ELSE IF q.method \notin flask_routes[q.path]
          THEN Finish(t, Response(405, "html", "Method Not Allowed"))
          ELSE IF q.path \in form_paths THEN Goto(t, "index") /\ resp' = resp
          ELSE IF q.path = "/health" THEN Goto(t, "health") /\ resp' = resp
          ELSE Goto(t, "checks") /\ resp' = resp
    /\ UNCHANGED <<G1, was_loaded, req, temp_dir, file_path, exc, valid, used, ctor, result>>

\* index()
index(t) ==
    /\ variant = "flask"
    /\ pc[t] = "index"
    /\ Finish(t, Response(200, "html", "form"))
    /\ UNCHANGED <<G1, was_loaded, req, temp_dir, file_path, exc, valid, used, ctor, result>>

\* health_check()
health_check(t) ==
    /\ variant = "flask"
    /\ pc[t] = "health"
    /\ Finish(t, Response(200, "json",
                 IF model # 0 THEN "healthy,model_loaded=true" ELSE "healthy,model_loaded=false"))
    /\ UNCHANGED <<G1, was_loaded, req, temp_dir, file_path, exc, valid, used, ctor, result>>

\* upload_file() lines 59-74 and api_predict() lines 121-131.  Reading
\* request.files parses the body, and raises RequestEntityTooLarge when the
\* Content-Length exceeds MAX_CONTENT_LENGTH: outside the try block in
\* upload_file (handled by too_large), inside it in api_predict.
flask_checks(t) ==
    /\ variant = "flask"
    /\ pc[t] = "checks"
    /\ LET q == req[t]
       IN IF content_length(q) > MAX_FILE_SIZE
          THEN IF IsApi(t)
               THEN /\ Raise(t, "413 Request Entity Too Large", "except")
                    /\ UNCHANGED <<resp, valid>>
               ELSE /\ Finish(t, redirect(t, "File too large. Maximum size is 16MB."))
                    /\ UNCHANGED <<exc, valid>>
          ELSE IF ~(q.ctype = "multipart" /\ q.has_file)
          THEN Finish(t, flask_error(t, 400, "No file uploaded")) /\ UNCHANGED <<exc, valid>>
          ELSE IF q.filename = <<>>
          THEN Finish(t, flask_error(t, 400, "No file selected")) /\ UNCHANGED <<exc, valid>>
          ELSE IF ~allowed_file(q.filename)
          THEN /\ Finish(t, flask_error(t, 400, "Invalid file type"))
               /\ valid' = [valid EXCEPT ![t] = "False"]
               /\ exc' = exc
          ELSE Goto(t, "save") /\ UNCHANGED <<resp, exc, valid>>
    /\ UNCHANGED <<G1, was_loaded, req, temp_dir, file_path, used, ctor, result>>

\* filename = secure_filename(...); file_path = os.path.join(...); file.save(file_path)
\* The write may fail part-way (disk full, I/O error), leaving a truncated file.
flask_save(t) ==
    /\ variant = "flask"
    /\ pc[t] = "save"
    /\ LET path == <<UPLOAD_FOLDER, secure_filename(req[t].filename)>>
       IN /\ file_path' = [file_path EXCEPT ![t] = path]
          /\ \/ /\ files' = write(files, path, stored(req[t], t))
                /\ Goto(t, "validate")
                /\ exc' = exc
             \/ /\ files' = write(files, path, partial(t))
                /\ Raise(t, "OSError", "except")
    /\ UNCHANGED <<variant, was_loaded, model, loads, rng, dirs, seen, req, temp_dir, valid,
                   used, ctor, result, resp>>

\* if not validate_image(file_path):
flask_validate(t) ==
    /\ variant = "flask"
    /\ pc[t] = "validate"
    /\ LET v == validate_image(files, file_path[t])
       IN /\ valid' = [valid EXCEPT ![t] = IF v THEN "True" ELSE "False"]
          /\ Goto(t, IF v THEN "model" ELSE "rm_invalid")
    /\ UNCHANGED <<G1, was_loaded, req, temp_dir, file_path, exc, used, ctor, result, resp>>

\* os.remove(file_path); return 'Invalid image file', 400
flask_rm_invalid(t) ==
    /\ variant = "flask"
    /\ pc[t] = "rm_invalid"
    /\ IF file_path[t] \in DOMAIN files
       THEN /\ files' = remove(files, file_path[t])
            /\ Finish(t, flask_error(t, 400, "Invalid image file"))
            /\ exc' = exc
       ELSE /\ Raise(t, "FileNotFoundError", "except")
            /\ UNCHANGED <<files, resp>>
    /\ UNCHANGED <<variant, was_loaded, model, loads, rng, dirs, seen, req, temp_dir, file_path,
                   valid, used, ctor, result>>

\* if model is None:
flask_model_test(t) ==
    /\ variant = "flask"
    /\ pc[t] = "model"
    /\ Goto(t, IF model = 0 THEN "load" ELSE "predict")
    /\ UNCHANGED <<G1, was_loaded, req, temp_dir, file_path, exc, valid, used, ctor, result, resp>>

\* model = load_or_create_model(): builds a network (or fails to: the
\* weights cannot be read or fetched) and binds the global to it
flask_model_load(t) ==
    /\ variant = "flask"
    /\ pc[t] = "load"
    /\ \/ /\ loads' = loads + 1
          /\ model' = loads + 1
          /\ ctor' = [ctor EXCEPT ![t] = TRUE]
          /\ Goto(t, "predict")
          /\ exc' = exc
       \/ /\ Raise(t, "OSError", "except")
          /\ UNCHANGED <<loads, model, ctor>>
    /\ UNCHANGED <<variant, was_loaded, rng, dirs, files, seen, req, temp_dir, file_path, valid,
                   used, result, resp>>

\* result = predict_image(model, file_path): model.py preprocess_image and
\* predict_image.  load_img raises when the file is gone or cannot be decoded.
flask_predict(t) ==
    /\ variant = "flask"
    /\ pc[t] = "predict"
    /\ IF file_path[t] \in DOMAIN files /\ PIL_identifies(files[file_path[t]])
       THEN /\ \E predictions \in Softmax :
                 result' = [result EXCEPT ![t] = trained_result(predictions)]
            /\ used' = [used EXCEPT ![t] = model]
            /\ Goto(t, "cleanup")
            /\ exc' = exc
       ELSE /\ Raise(t, "cannot load image", "except")
            /\ UNCHANGED <<result, used>>
    /\ UNCHANGED <<G1, was_loaded, req, temp_dir, file_path, valid, ctor, resp>>

\* upload_file lines 96-100 (read the file back, then os.remove) and
\* api_predict line 151 (os.remove)
flask_cleanup(t) ==
    /\ variant = "flask"
    /\ pc[t] = "cleanup"
    /\ IF file_path[t] \in DOMAIN files
       THEN /\ files' = remove(files, file_path[t])
            /\ Goto(t, "respond")
            /\ exc' = exc
       ELSE /\ Raise(t, "FileNotFoundError", "except")
            /\ files' = files
    /\ UNCHANGED <<variant, was_loaded, model, loads, rng, dirs, seen, req, temp_dir, file_path,
                   valid, used, ctor, result, resp>>

\* return jsonify(result) / render_template('result.html', ...)
flask_respond(t) ==
    /\ variant = "flask"
    /\ pc[t] = "respond"
    /\ Finish(t, Response(200, IF IsApi(t) THEN "json" ELSE "html", "result"))
    /\ UNCHANGED <<G1, was_loaded, req, temp_dir, file_path, exc, valid, used, ctor, result>>

\* except Exception as e: if 'file_path' in locals() and os.path.exists(file_path):
flask_except(t) ==
    /\ variant = "flask"
    /\ pc[t] = "except"
    /\ IF file_path[t] # NoPath /\ file_path[t] \in DOMAIN files
       THEN Goto(t, "except_rm") /\ resp' = resp
       ELSE Finish(t, flask_error(t, 500, exc[t]))
    /\ UNCHANGED <<G1, was_loaded, req, temp_dir, file_path, exc, valid, used, ctor, result>>

\* os.remove(file_path), then the error reply.  When the file has gone since
\* the test, os.remove raises out of the view and Flask answers 500 itself.
flask_except_rm(t) ==
    /\ variant = "flask"
    /\ pc[t] = "except_rm"
    /\ IF file_path[t] \in DOMAIN files
       THEN /\ files' = remove(files, file_path[t])
            /\ Finish(t, flask_error(t, 500, exc[t]))
       ELSE /\ files' = files
            /\ Finish(t, Response(500, "html", "Internal Server Error"))
    /\ UNCHANGED <<variant, was_loaded, model, loads, rng, dirs, seen, req, temp_dir, file_path,
                   exc, valid, used, ctor, result>>

FlaskStep(t) ==
    \/ flask_dispatch(t)
    \/ index(t)
    \/ health_check(t)
    \/ flask_checks(t)
    \/ flask_save(t)
    \/ flask_validate(t)
    \/ flask_rm_invalid(t)
    \/ flask_model_test(t)
    \/ flask_model_load(t)
    \/ flask_predict(t)
    \/ flask_cleanup(t)
    \/ flask_respond(t)
    \/ flask_except(t)
    \/ flask_except_rm(t)

---------------------------------------------------------------------------
(* simple_app.py: the dependency-free server *)

simple_error_html(t, status, message) == Response(status, "html", message)

\* send_error (an HTML error page) in handle_upload, send_json_error in
\* handle_api_predict
simple_error(t, status, message) ==
    Response(status, IF IsApi(t) THEN "json" ELSE "html", message)

\* do_GET
do_GET(t) ==
    /\ variant = "simple"
    /\ pc[t] = "recv"
    /\ req[t].method = "GET"
    /\ IF req[t].path \in form_paths THEN Goto(t, "index") /\ resp' = resp
       ELSE IF req[t].path = "/health" THEN Goto(t, "get_model") /\ resp' = resp
       ELSE Finish(t, Response(404, "html", "Page not found"))
    /\ UNCHANGED <<G1, was_loaded, req, temp_dir, file_path, exc, valid, used, ctor, result>>

do_POST_any(t) ==
    /\ variant = "simple"
    /\ pc[t] = "recv"
    /\ req[t].method = "POST"
    /\ Goto(t, "decode") /\ resp' = resp
    /\ UNCHANGED <<G1, was_loaded, req, temp_dir, file_path, exc, valid, used, ctor, result>>

\* do_POST
do_POST(t) ==
    /\ variant = "simple"
    /\ pc[t] = "recv"
    /\ req[t].method = "POST"
    /\ IF req[t].path \in {"/upload", "/api/predict"} THEN Goto(t, "decode") /\ resp' = resp
       ELSE Finish(t, Response(404, "html", "Endpoint not found"))
    /\ UNCHANGED <<G1, was_loaded, req, temp_dir, file_path, exc, valid, used, ctor, result>>

\* serve_index
serve_index(t) ==
    /\ variant = "simple"
    /\ pc[t] = "index"
    /\ Finish(t, Response(200, "html", "form"))
    /\ UNCHANGED <<G1, was_loaded, req, temp_dir, file_path, exc, valid, used, ctor, result>>

\* handle_upload lines 261-287, handle_api_predict lines 512-533.  Without a
\* boundary parameter, content_type.split('boundary=')[1] raises IndexError
\* in handle_upload and cgi.FieldStorage raises ValueError in both.
simple_decode(t) ==
    /\ variant = "simple"
    /\ pc[t] = "decode"
    /\ LET q == req[t]
       IN IF q.ctype \notin {"multipart", "multipart-noboundary"}
          THEN Finish(t, simple_error(t, 400, "Bad request")) /\ exc' = exc
          ELSE IF q.ctype = "multipart-noboundary"
          THEN /\ Raise(t, IF IsApi(t) THEN "Invalid boundary in multipart form"
                           ELSE "list index out of range", "except")
               /\ resp' = resp
          ELSE IF ~q.has_file
          THEN Finish(t, simple_error(t, 400, "No file uploaded")) /\ exc' = exc
          ELSE IF q.filename = <<>>
          THEN Finish(t, simple_error(t, 400, "No file selected")) /\ exc' = exc
          ELSE Goto(t, "mkdtemp") /\ UNCHANGED <<resp, exc>>
    /\ UNCHANGED <<G1, was_loaded, req, temp_dir, file_path, valid, used, ctor, result>>

\* tempfile.mkdtemp(): a directory that did not exist; which name it gets
\* does not matter, so it gets the first free one
mkdtemp(existing) == CHOOSE d \in DirIds \ existing : \A e \in DirIds \ existing : d <= e

\* tempfile.gettempdir(), the directory mkdtemp creates its directories in,
\* as a directory id distinct from theirs and from the upload folder
TMPDIR == MaxDirs + 1

PARENT_PREFIX == <<Dot, Dot, Slash>>                 \* ../
TMPDIR_PREFIX == <<Slash, 116, 109, 112, Slash>>     \* /tmp/

\* The file os.path.join(d, name) names when it is opened, as <<directory,
\* name within it>>.  os.path.join discards d when name is absolute, and
\* keeps a leading '..' component, which the operating system resolves to
\* the parent of d.
os_path_join(d, name) ==
    IF StartsWith(name, TMPDIR_PREFIX)
    THEN <<TMPDIR, Tail2(name, Len(TMPDIR_PREFIX) + 1)>>
    ELSE IF StartsWith(name, PARENT_PREFIX)
    THEN <<TMPDIR, Tail2(name, Len(PARENT_PREFIX) + 1)>>
    ELSE <<d, name>>

\* temp_dir = tempfile.mkdtemp(); file_path = os.path.join(temp_dir, file_item.filename)
simple_mkdtemp(t) ==
    /\ variant = "simple"
    /\ pc[t] = "mkdtemp"
    /\ DirIds \ dirs # {}
    /\ LET d == mkdtemp(dirs)
       IN /\ dirs' = dirs \cup {d}
          /\ temp_dir' = [temp_dir EXCEPT ![t] = d]
          /\ file_path' = [file_path EXCEPT ![t] = os_path_join(d, req[t].filename)]
    /\ Goto(t, "write")
    /\ UNCHANGED <<variant, was_loaded, model, loads, rng, files, seen, req, exc, valid, used,
                   ctor, result, resp>>

\* open(file_path, 'wb') finds no directory to create the file in when the
\* name has a directory part, which nothing has created inside temp_dir
parent_missing(path) == Slash \in Range(path[2])

\* with open(file_path, 'wb') as f: f.write(file_item.file.read())
\* These lines stand before the inner try: what they raise (no directory for
\* the file, or the disk refusing it) goes to the outer except clause alone.
simple_write(t) ==
    /\ variant = "simple"
    /\ pc[t] = "write"
    /\ IF parent_missing(file_path[t])
       THEN Raise(t, "No such file or directory", "except") /\ files' = files
       ELSE \/ /\ files' = write(files, file_path[t], stored(req[t], t))
               /\ Goto(t, "get_model")
               /\ exc' = exc
            \/ /\ files' = files
               /\ Raise(t, "OSError", "except")
    /\ UNCHANGED <<variant, was_loaded, model, loads, rng, dirs, seen, req, temp_dir, file_path,
                   valid, used, ctor, result, resp>>

\* where a handler continues once get_model() has returned
after_get_model(t) == IF req[t].path = "/health" THEN "health" ELSE "validate"

\* get_model(): if model is None: ... else return model
get_model_test(t) ==
    /\ variant = "simple"
    /\ pc[t] = "get_model"
    /\ IF model = 0
       THEN Goto(t, "load") /\ used' = used
       ELSE Goto(t, after_get_model(t)) /\ used' = [used EXCEPT ![t] = model]
    /\ UNCHANGED <<G1, was_loaded, req, temp_dir, file_path, exc, valid, ctor, result, resp>>

\* get_model(): model = load_simple_model(); return model
get_model_load(t) ==
    /\ variant = "simple"
    /\ pc[t] = "load"
    /\ loads' = loads + 1
    /\ model' = loads + 1
    /\ ctor' = [ctor EXCEPT ![t] = TRUE]
    /\ used' = [used EXCEPT ![t] = loads + 1]
    /\ Goto(t, after_get_model(t))
    /\ UNCHANGED <<variant, was_loaded, rng, dirs, files, seen, req, temp_dir, file_path, exc,
                   valid, result, resp>>

\* serve_health, after get_model(): model.is_loaded() is True of every instance
serve_health(t) ==
    /\ variant = "simple"
    /\ pc[t] = "health"
    /\ Finish(t, Response(200, "json", "healthy,model_loaded=true"))
    /\ UNCHANGED <<G1, was_loaded, req, temp_dir, file_path, exc, valid, used, ctor, result>>

simple_validate_ignored(t) ==
    /\ variant = "simple"
    /\ pc[t] = "validate"
    /\ LET v == validate_image_simple(files, file_path[t])
       IN valid' = [valid EXCEPT ![t] = IF v THEN "True" ELSE "False"]
    /\ Goto(t, "seed")
    /\ UNCHANGED <<variant, was_loaded, model, loads, rng, dirs, files, seen, req, temp_dir,
                   file_path, exc, used, ctor, result, resp>>

\* model.predict -> predict_image_simple: if not validate_image_simple(img_path):
\*     raise ValueError("Invalid image file")
\* The file may be unlinked by another process while the validator runs:
\* after os.path.exists (line 22) and before os.path.getsize (line 32), which
\* stands outside the try block, or after it and before open (line 37),
\* inside the try block.
simple_validate(t) ==
    /\ variant = "simple"
    /\ pc[t] = "validate"
    /\ \/ LET v == validate_image_simple(files, file_path[t])
          IN /\ valid' = [valid EXCEPT ![t] = IF v THEN "True" ELSE "False"]
             /\ IF v THEN Goto(t, "seed") /\ exc' = exc
                ELSE Raise(t, "Invalid image file", "finally")
             /\ files' = files
       \/ /\ reaches_getsize(files, file_path[t])
          /\ files' = remove(files, file_path[t])
          /\ \/ /\ valid' = [valid EXCEPT ![t] = "raised"]
                /\ Raise(t, "FileNotFoundError", "finally")
             \/ /\ files[file_path[t]].size # 0
                /\ valid' = [valid EXCEPT ![t] = "False"]
                /\ Raise(t, "Invalid image file", "finally")
    /\ UNCHANGED <<variant, was_loaded, model, loads, rng, dirs, seen, req, temp_dir,
                   file_path, used, ctor, result, resp>>

prediction_seed_of_content(fs, img_path) ==
    seed_of(digest(hash_input(basename(img_path[2]) \o fs[img_path].head, fs[img_path].size)))

\* generate_deterministic_prediction lines 56-64: the seed
prediction_seed(fs, img_path) ==
    seed_of(digest(hash_input(basename(img_path[2]), fs[img_path].size)))

\* generate_deterministic_prediction lines 56-65: random.seed(seed)
simple_seed(t) ==
    /\ variant = "simple"
    /\ pc[t] = "seed"
    /\ rng' = random_seed(prediction_seed(files, file_path[t]))
    /\ Goto(t, "draw")
    /\ UNCHANGED <<variant, was_loaded, model, loads, dirs, files, seen, req, temp_dir, file_path,
                   exc, valid, used, ctor, result, resp>>

\* what `seen` remembers of a prediction
memo(t, res) ==
    [name |-> basename(file_path[t][2]), size |-> files[file_path[t]].size,
     head |-> files[file_path[t]].head, dir |-> temp_dir[t], res |-> res]

\* generate_deterministic_prediction lines 69-85: the draws from the
\* process-wide generator, the normalisation and the result.  `seen` keeps
\* one earlier prediction, any of them.
simple_draw(t) ==
    /\ variant = "simple"
    /\ pc[t] = "draw"
    /\ result' = [result EXCEPT ![t] = mock_result(rng)]
    /\ rng' = advance(rng, NUM_CLASSES)
    /\ seen' \in {seen, {memo(t, mock_result(rng))}}
    /\ Goto(t, "respond")
    /\ UNCHANGED <<variant, was_loaded, model, loads, dirs, files, req, temp_dir, file_path,
                   exc, valid, used, ctor, resp>>

\* self.send_json_response(result) / self.serve_result(...), inside the inner try
simple_respond(t) ==
    /\ variant = "simple"
    /\ pc[t] = "respond"
    /\ resp' = [resp EXCEPT ![t] =
                   Append(@, Response(200, IF IsApi(t) THEN "json" ELSE "html", "result"))]
    /\ Goto(t, "finally")
    /\ UNCHANGED <<G1, was_loaded, req, temp_dir, file_path, exc, valid, used, ctor, result>>

\* finally: shutil.rmtree(temp_dir); a pending exception then reaches the
\* outer except clause.  shutil.rmtree raises when the directory has been
\* removed by another process in the meantime; what it raises takes the
\* place of a pending exception.
simple_finally(t) ==
    /\ variant = "simple"
    /\ pc[t] = "finally"
    /\ dirs' = dirs \ {temp_dir[t]}
    /\ files' = rmtree(files, temp_dir[t])
    /\ \/ Goto(t, IF exc[t] # "" THEN "except" ELSE "done") /\ exc' = exc
       \/ Raise(t, "FileNotFoundError", "except")
    /\ UNCHANGED <<variant, was_loaded, model, loads, rng, seen, req, temp_dir, file_path,
                   valid, used, ctor, result, resp>>

simple_except_silent(t) ==
    /\ variant = "simple"
    /\ pc[t] = "except"
    /\ Goto(t, "done")
    /\ UNCHANGED <<G1, was_loaded, req, temp_dir, file_path, exc, valid, used, ctor, result, resp>>

\* except Exception as e: self.send_error(500, ...) / self.send_json_error(500, str(e))
simple_except(t) ==
    /\ variant = "simple"
    /\ pc[t] = "except"
    /\ Finish(t, simple_error(t, 500, exc[t]))
    /\ UNCHANGED <<G1, was_loaded, req, temp_dir, file_path, exc, valid, used, ctor, result>>

SimpleStep(t) ==
    \/ do_GET(t)
    \/ do_POST(t)
    \/ serve_index(t)
    \/ simple_decode(t)
    \/ simple_mkdtemp(t)
    \/ simple_write(t)
    \/ get_model_test(t)
    \/ get_model_load(t)
    \/ serve_health(t)
    \/ simple_validate(t)
    \/ simple_seed(t)
    \/ simple_draw(t)
    \/ simple_respond(t)
    \/ simple_finally(t)
    \/ simple_except(t)

Next ==
    \/ \E t \in Workers, q \in Requests : Accept(t, q)
    \/ \E t \in Workers : Release(t)
    \/ Restart
    \/ \E t \in Workers : FlaskStep(t)
    \/ \E t \in Workers : SimpleStep(t)

Spec == Init /\ [][Next]_vars

---------------------------------------------------------------------------
(* Properties *)

Done(t) == pc[t] = "done"

IsUploadPost(q) == q.method = "POST" /\ q.path \in {"/upload", "/api/predict"}

Statuses(t) == {resp[t][i].status : i \in DOMAIN resp[t]}

\* the temporary storage worker t's request created is still on disk: its
\* temporary directory (simple_app.py), or the file it saved in the upload
\* folder, unless another request has since replaced that file (app.py)
StorageRemains(t) ==
    IF variant = "simple"
    THEN temp_dir[t] # 0 /\ temp_dir[t] \in dirs
    ELSE /\ file_path[t] # NoPath
         /\ file_path[t] \in DOMAIN files
         /\ files[file_path[t]].by = t

\* C1: once an upload request that created its temporary file or directory
\* has completed, on whatever exit path, that file or directory no longer
\* exists.
C1_TempStorageRemoved ==
    \A t \in Workers : Done(t) /\ IsUploadPost(req[t]) => ~StorageRemains(t)

\* C2: POST /api/predict answers every validation failure of the uploaded
\* file with status 400 and a JSON {error} body, never with a 500.
C2_ValidationFailureIs400 ==
    \A t \in Workers :
        Done(t) /\ req[t].method = "POST" /\ IsApi(t) /\ valid[t] = "False"
        => /\ Len(resp[t]) = 1
           /\ resp[t][1].status = 400
           /\ resp[t][1].kind = "json"

\* C3: the backend constructor runs at most once in the life of the process,
\* and every request uses the same instance.
C3_SingleInitialisation ==
    /\ loads <= 1
    /\ \A t, u \in Workers : used[t] # 0 /\ used[u] # 0 => used[t] = used[u]

\* C4: handling GET /health never runs the backend constructor and leaves
\* the backend singleton as it was.
C4_HealthDoesNotInitialise ==
    \A t \in Workers : req[t].method = "GET" /\ req[t].path = "/health" => ~ctor[t]

\* the (base name, size) a mock prediction is determined by, for the upload
\* worker t handles
MockKey(t) == <<basename(req[t].filename), req[t].file.size>>

HasMockResult(t) == variant = "simple" /\ result[t] # NoResult

\* C5: the mock backend's result depends only on the file's base name and
\* byte size: every prediction equals any earlier prediction made for the same
\* (name, size), whatever the content, the directory, the predictions made in
\* between or a restart of the process.
C5_MockDependsOnNameAndSize ==
    \A t \in Workers : \A e \in seen :
        HasMockResult(t) /\ MockKey(t) = <<e.name, e.size>> => result[t] = e.res

\* a prediction has been repeated for the same (name, size) with another
\* content and in another directory
C5_Witness ==
    \E t \in Workers : \E e \in seen :
        /\ HasMockResult(t) /\ Done(t)
        /\ MockKey(t) = <<e.name, e.size>>
        /\ e.head # req[t].file.head
        /\ e.dir # temp_dir[t]

Tolerance == Micro \div 10000

\* C6: the mock backend returns exactly 3 probabilities, each in [0, 1], whose
\* sum is 1.0 within 1e-4.
C6_MockDistribution ==
    \A t \in Workers :
        HasMockResult(t) =>
            LET d == result[t].all_predictions
            IN /\ Len(d) = 3
               /\ \A i \in DOMAIN d : 0 <= d[i] /\ d[i] <= Micro
               /\ Sum(d) - Micro <= Tolerance
               /\ Micro - Sum(d) <= Tolerance

\* mock predictions with two different distributions are on record
C6_Witness ==
    \E t \in Workers : \E e \in seen :
        HasMockResult(t) /\ e.res.all_predictions # result[t].all_predictions

\* the 1-based class index of a label
ClassIndex(label) == CHOOSE i \in DOMAIN CLASS_LABELS : CLASS_LABELS[i] = label

\* C7: the reported class is the argmax of the distribution, the lowest index
\* winning exact ties, and the confidence is the distribution's value for the
\* reported class; for both backends.
C7_ArgmaxAndConfidence ==
    \A t \in Workers :
        result[t] # NoResult =>
            LET d == result[t].all_predictions
                k == ClassIndex(result[t].class)
            IN /\ \A j \in DOMAIN d : d[j] <= d[k]
               /\ \A j \in DOMAIN d : j < k => d[j] < d[k]
               /\ result[t].confidence = d[k]

\* a prediction whose largest value occurs twice has been formatted
C7_Witness ==
    \E t \in Workers :
        /\ result[t] # NoResult
        /\ \E i, j \in DOMAIN result[t].all_predictions :
              /\ i # j
              /\ result[t].all_predictions[i] = result[t].all_predictions[j]
              /\ \A k \in DOMAIN result[t].all_predictions :
                    result[t].all_predictions[k] <= result[t].all_predictions[i]

\* what the variant's validator answers for the file worker t has stored
ValidatorAccepts(t) ==
    IF variant = "simple"
    THEN validate_image_simple(files, file_path[t])
    ELSE allowed_file(req[t].filename) /\ validate_image(files, file_path[t])

\* the extension of a declared filename, lower-cased, without its dot
DeclaredExtension(filename) == Lower(Tail2(filename, RFind(filename, Dot) + 1))

ExtensionAllowed(filename) ==
    /\ Dot \in Range(filename)
    /\ DeclaredExtension(filename) \in
          (IF variant = "simple" THEN ALLOWED_EXTENSIONS \cup {EXT_bmp} ELSE ALLOWED_EXTENSIONS)

\* C8: the image validator returns False for a zero-byte file, for a file
\* whose extension is outside the variant's allowed set, and for a file whose
\* leading bytes match none of the PNG, JPEG, GIF or BMP signatures, even when
\* its extension is allowed.
C8_ValidatorRejects ==
    \A t \in Workers :
        pc[t] = "validate" /\ file_path[t] \in DOMAIN files =>
            LET f == files[file_path[t]]
            IN \/ f.size = 0
               \/ ~ExtensionAllowed(req[t].filename)
               \/ ~known_signature(read_header(f))
               => ~ValidatorAccepts(t)

\* C9: in the dependency-free variant, POST /upload and POST /api/predict
\* answer with a 4xx status when the Content-Type is not multipart/form-data,
\* when it carries no boundary, when no `file` field is present, or when that
\* field has an empty filename.
C9_DecodeFailureIs4xx ==
    \A t \in Workers :
        /\ variant = "simple" /\ Done(t) /\ IsUploadPost(req[t])
        /\ \/ req[t].ctype # "multipart"
           \/ ~req[t].has_file
           \/ req[t].filename = <<>>
        => /\ resp[t] # <<>>
           /\ Statuses(t) \subseteq 400 .. 499

\* the "too large" rejection: a 4xx status, or the flashed message of too_large
IsTooLargeRejection(r) ==
    \/ r.status \in 400 .. 499
    \/ r.kind = "redirect" /\ r.body = "File too large. Maximum size is 16MB."

\* C10: a request whose body exceeds 16 MiB is rejected with a client-facing
\* "too large" error before any decoding, storing, validation or prediction.
C10_OversizeRejected ==
    \A t \in Workers :
        IsUploadPost(req[t]) /\ content_length(req[t]) > MAX_FILE_SIZE =>
            /\ temp_dir[t] = 0
            /\ file_path[t] = NoPath
            /\ valid[t] = "none"
            /\ result[t] = NoResult
            /\ Done(t) => Len(resp[t]) = 1 /\ IsTooLargeRejection(resp[t][1])

InFlight(t) == pc[t] \notin {"idle", "done"}

\* C11: no two in-flight requests ever hold the same temporary path, so that
\* none can overwrite, read or delete the upload another has stored.
C11_NoSharedTempPath ==
    \A t, u \in Workers :
        /\ t # u
        /\ InFlight(t) /\ InFlight(u)
        /\ file_path[t] # NoPath
        => file_path[t] # file_path[u]

\* the uploaded content is a well-formed image of one of the four formats
ValidImage(f) == f.size > 0 /\ f.intact /\ known_signature(read_header(f))

\* the disk refused a write, or the weights of the network could not be read
EnvironmentFault(t) == exc[t] = "OSError"

\* the result has the three class labels, each with a value in [0, 1], and
\* one of them as its class
WellFormedResult(r) ==
    /\ Len(r.all_predictions) = Len(CLASS_LABELS)
    /\ \A i \in DOMAIN r.all_predictions :
          0 <= r.all_predictions[i] /\ r.all_predictions[i] <= Micro
    /\ r.class \in Range(CLASS_LABELS)

\* C12: POST /api/predict with a filename of an allowed extension and a valid
\* image as content answers 200 with a JSON result holding all three class
\* labels, each with a value in [0, 1].
C12_ValidUploadIs200 ==
    \A t \in Workers :
        /\ Done(t) /\ req[t].method = "POST" /\ IsApi(t)
        /\ req[t].ctype = "multipart" /\ req[t].has_file
        /\ ExtensionAllowed(req[t].filename)
        /\ ValidImage(req[t].file)
        /\ content_length(req[t]) <= MAX_FILE_SIZE
        /\ ~EnvironmentFault(t)
        => /\ resp[t] = <<Response(200, "json", "result")>>
           /\ WellFormedResult(result[t])

C14_NoFileRedirectsToForm ==
    \A t \in Workers :
        /\ Done(t) /\ req[t].method = "POST" /\ req[t].path = "/upload"
        /\ req[t].ctype = "multipart" /\ ~req[t].has_file
        => /\ Len(resp[t]) = 1
           /\ resp[t][1].kind = "redirect"
           /\ resp[t][1].location \in form_paths

\* preprocessing, backend construction or prediction raised for the upload
\* worker t had stored
RaisedInBackend(t) ==
    IF variant = "flask"
    THEN valid[t] = "True" /\ exc[t] \in {"OSError", "cannot load image"}
    ELSE exc[t] = "Invalid image file"

\* C15: when preprocessing, backend construction or prediction raises after
\* the upload was stored, /api/predict answers 500 with a JSON {error} body:
\* the exception does not leave the handler.
C15_BackendFailureIsJson500 ==
    \A t \in Workers :
        Done(t) /\ req[t].method = "POST" /\ IsApi(t) /\ RaisedInBackend(t)
        => resp[t] = <<Response(500, "json", exc[t])>>

\* C16: whenever a handler has returned, on whatever path, a response has
\* been sent to the caller.
C16_EveryRequestAnswered ==
    \A t \in Workers : Done(t) => resp[t] # <<>>

\* a handler has returned through its except clause
C16_Witness ==
    \E t \in Workers : Done(t) /\ exc[t] # "" /\ variant = "simple" /\ resp[t] # <<>>

---------------------------------------------------------------------------
(* The two variants side by side: a process of app.py (worker 1) and a     *)
(* process of simple_app.py (worker 2) are sent the same request, each     *)
(* with its backend singleton in the same state of initialisation.  The    *)
(* process-wide variables hold the state of the process that is running.   *)

\* a request arrives at the Flask process
PairAccept(q) ==
    /\ variant = "flask"
    /\ \A t \in Workers : pc[t] = "idle"
    /\ req' = [req EXCEPT ![1] = q]
    /\ was_loaded' = [was_loaded EXCEPT ![1] = (model # 0)]
    /\ Goto(1, "recv")
    /\ UNCHANGED <<variant, model, loads, rng, dirs, files, seen, temp_dir,
                   file_path, exc, valid, used, ctor, result, resp>>

\* the Flask process has answered; the same request arrives at a process of
\* the dependency-free server whose singleton is initialised exactly if the
\* Flask process's was when it got the request
PairSwitch ==
    /\ variant = "flask"
    /\ pc[1] = "done" /\ pc[2] = "idle"
    /\ variant' = "simple"
    /\ model' = (IF was_loaded[1] THEN 1 ELSE 0)
    /\ loads' = (IF was_loaded[1] THEN 1 ELSE 0)
    /\ rng' \in BootStates
    /\ req' = [req EXCEPT ![2] = req[1]]
    /\ was_loaded' = [was_loaded EXCEPT ![2] = was_loaded[1]]
    /\ pc' = [pc EXCEPT ![2] = "recv"]
    /\ UNCHANGED <<dirs, files, seen, temp_dir, file_path, exc, valid, used, ctor,
                   result, resp>>

\* both have answered and forget the request; the Flask process, whose
\* singleton is initialised if it was or if this request initialised it,
\* runs again
PairRelease ==
    /\ variant = "simple"
    /\ pc[1] = "done" /\ pc[2] = "done"
    /\ variant' = "flask"
    /\ model' = (IF was_loaded[1] \/ ctor[1] THEN 1 ELSE 0)
    /\ loads' = (IF was_loaded[1] \/ ctor[1] THEN 1 ELSE 0)
    /\ rng' = 0
    /\ pc' = [t \in Workers |-> "idle"]
    /\ req' = [t \in Workers |-> IdleReq]
    /\ temp_dir' = [t \in Workers |-> 0]
    /\ file_path' = [t \in Workers |-> NoPath]
    /\ exc' = [t \in Workers |-> ""]
    /\ valid' = [t \in Workers |-> "none"]
    /\ used' = [t \in Workers |-> 0]
    /\ ctor' = [t \in Workers |-> FALSE]
    /\ result' = [t \in Workers |-> NoResult]
    /\ was_loaded' = [t \in Workers |-> FALSE]
    /\ resp' = [t \in Workers |-> <<>>]
    /\ UNCHANGED <<dirs, files, seen>>

PairInit == Init /\ variant = "flask"

PairNext ==
    \/ \E q \in Requests : PairAccept(q)
    \/ FlaskStep(1)
    \/ PairSwitch
    \/ SimpleStep(2)
    \/ PairRelease

SpecPair == PairInit /\ [][PairNext]_vars

\* what a client observes of a response: the class of its status, its shape,
\* and for /health the model_loaded value it reports
Observation(t, r) ==
    <<r.status \div 100, r.kind, IF req[t].path = "/health" THEN r.body ELSE "">>

Observations(t) == [i \in DOMAIN resp[t] |-> Observation(t, resp[t][i])]

\* C17: for the same request and the same state of backend initialisation,
\* the Flask variant and the dependency-free variant answer with the same
\* status class and the same response shape, and /health reports the same
\* model_loaded value.
C17_VariantsEquivalent ==
    /\ variant = "simple"
    /\ pc[1] = "done" /\ pc[2] = "done"
    /\ req[1].path \in {"/", "/upload", "/api/predict", "/health"}
    /\ ~EnvironmentFault(1) /\ ~EnvironmentFault(2)
    => Observations(1) = Observations(2)

IsHealth(q) == q.method = "GET" /\ q.path = "/health"

\* C18: GET /health answers 200 with {status: "healthy", model_loaded: b},
\* and b is true exactly when an earlier request has initialised the backend
\* singleton: not when this request initialised it itself, and never false
\* when the singleton was already there as the request arrived.
C18_HealthReportsInitialisation ==
    \A t \in Workers :
        Done(t) /\ IsHealth(req[t]) =>
            /\ Len(resp[t]) = 1
            /\ resp[t][1].status = 200 /\ resp[t][1].kind = "json"
            /\ resp[t][1].body \in {"healthy,model_loaded=true", "healthy,model_loaded=false"}
            /\ resp[t][1].body = "healthy,model_loaded=true" => ~ctor[t]
            /\ resp[t][1].body = "healthy,model_loaded=false" => ~was_loaded[t]

\* the keys of all_predictions, in order, for the backend of the variant
prediction_labels == IF variant = "flask" THEN model_CLASS_LABELS ELSE CLASS_LABELS

\* C19: a result has exactly the keys class, confidence and all_predictions;
\* all_predictions has exactly the keys Lung Opacity, Normal, Viral Pneumonia
\* for the class indices 0, 1, 2; class is one of them; and the index-to-label
\* mapping is the same in model.py and simple_model.py.
C19_ResultStructure ==
    /\ model_CLASS_NAMES = CLASS_NAMES
    /\ model_CLASS_LABELS = CLASS_LABELS
    /\ CLASS_NAMES = CLASS_LABELS
    /\ \A t \in Workers :
          result[t] # NoResult =>
              /\ DOMAIN result[t] = {"class", "confidence", "all_predictions"}
              /\ DOMAIN result[t].all_predictions = DOMAIN prediction_labels
              /\ prediction_labels = <<"Lung Opacity", "Normal", "Viral Pneumonia">>
              /\ result[t].class \in Range(prediction_labels)

\* the trained backend has returned a result
C19_Witness ==
    \E t \in Workers : variant = "flask" /\ Done(t) /\ result[t] # NoResult

\* C20: the image validators return a boolean for every file and never raise,
\* also when the file disappears while they run.
C20_ValidatorNeverRaises ==
    \A t \in Workers : valid[t] \in {"none", "True", "False"}

\* C21: when validation fails for a stored upload, the request is answered
\* with a client error without the backend singleton being initialised or
\* looked up by it, and without passing through the except clause of the
\* handler.
C21_ValidationFailureHandledLocally ==
    \A t \in Workers :
        Done(t) /\ IsUploadPost(req[t]) /\ valid[t] = "False" /\ file_path[t] # NoPath
        => /\ ~ctor[t]
           /\ used[t] = 0
           /\ exc[t] = ""
           /\ Len(resp[t]) = 1
           /\ resp[t][1].status \in (400 .. 499) \cup {302}

---------------------------------------------------------------------------
(* The mock backend under a multi-threaded server: the handlers of the     *)
(* dependency-free server, each request on a thread of its own             *)

\* two uploads the mock backend predicts for, of different (name, size)
MockUploads ==
    {[method |-> "POST", path |-> "/api/predict", ctype |-> "multipart", has_file |-> TRUE,
      filename |-> u[1], file |-> u[2]] : u \in {<<NAME_png, FILE_png>>, <<NAME_bmp, FILE_bmp>>}}

\* A request arrives at an idle thread; mock predictions are handled
\* concurrently with one another.
ThreadedAccept(t, q) ==
    /\ pc[t] = "idle"
    /\ \A u \in Workers : u < t => pc[u] # "idle"
    /\ \A u \in Workers \ {t} : pc[u] # "idle" => q \in MockUploads /\ req[u] \in MockUploads
    /\ req' = [req EXCEPT ![t] = q]
    /\ was_loaded' = [was_loaded EXCEPT ![t] = (model # 0)]
    /\ Goto(t, "recv")
    /\ UNCHANGED <<variant, model, loads, rng, dirs, files, seen, temp_dir,
                   file_path, exc, valid, used, ctor, result, resp>>

\* the requests the threaded server is sent
ThreadedRequests ==
    MockUploads \cup {[IdleReq EXCEPT !.method = "GET", !.path = p] : p \in {"/", "/health"}}

ThreadedInit == Init /\ variant = "simple"

ThreadedNext ==
    \/ \E t \in Workers, q \in ThreadedRequests : ThreadedAccept(t, q)
    \/ \E t \in Workers : Release(t)
    \/ \E t \in Workers : SimpleStep(t)

SpecThreaded == ThreadedInit /\ [][ThreadedNext]_vars

\* the distribution the (filename, size) of worker t's upload determines
OwnPrediction(t) ==
    mock_result(random_seed(seed_of(digest(
        hash_input(basename(req[t].filename), req[t].file.size)))))

\* C22: when mock predictions run concurrently, each returns exactly the
\* result its own (filename, size) determines.
C22_ConcurrentMockDeterministic ==
    \A t \in Workers : HasMockResult(t) => result[t] = OwnPrediction(t)

\* the process is stopped and started again
IsRestart == (\A t \in Workers : pc[t] = "idle") /\ model' = 0

\* C23: once the global model handle is not None it is never reassigned or
\* reset while the process lives, the loader is not called again, and every
\* request that uses the backend observes the instance the handle holds.
C23_HandleNeverReassigned ==
    /\ [][model # 0 => (model' = model /\ loads' = loads) \/ IsRestart]_vars
    /\ [](\A t \in Workers : used[t] # 0 => used[t] = model)


\* the stage of a handler run a position belongs to: 1 decode, 2 store,
\* 3 validate, 4 predict, 5 format and respond, 6 what follows the response.
\* get_model() is called between storing and validating in simple_app.py
\* (298), between validating and predicting in app.py (89-90, 144-145).
Stage(l) ==
    CASE l = "recv" -> 0
      [] l \in {"checks", "decode"} -> 1
      [] l \in {"mkdtemp", "write", "save", "get_model"} -> 2
      [] l = "load" -> (IF variant = "simple" THEN 2 ELSE 3)
      [] l \in {"validate", "rm_invalid", "model"} -> 3
      [] l \in {"predict", "seed", "draw"} -> 4
      [] l \in {"cleanup", "respond", "index", "health"} -> 5
      [] OTHER -> 6

Predicting(t) == pc[t] \in {"predict", "seed", "draw"} \/ result[t] # NoResult

Unrouted(t) ==
    /\ req[t].method \in {"GET", "POST"}
    /\ req[t].method = "GET" => req[t].path \notin {"/", "/index.html", "/health"}
    /\ req[t].method = "POST" => req[t].path \notin {"/upload", "/api/predict"}

\* C25: the dependency-free router sends GET / and GET /index.html to the
\* upload form, GET /health to the health check, POST /upload and POST
\* /api/predict to their handlers, and answers every other GET or POST path
\* with 404 without decoding a body, creating storage or touching the backend.
C25_SimpleRouter ==
    \A t \in Workers :
        variant = "simple" =>
            /\ Unrouted(t) =>
                  /\ pc[t] \in {"recv", "done"}
                  /\ temp_dir[t] = 0 /\ file_path[t] = NoPath
                  /\ ~ctor[t] /\ used[t] = 0 /\ valid[t] = "none" /\ exc[t] = ""
                  /\ Done(t) => Len(resp[t]) = 1 /\ resp[t][1].status = 404
            /\ Done(t) /\ req[t].method = "GET" /\ req[t].path \in {"/", "/index.html"}
                  => resp[t] = <<Response(200, "html", "form")>>
            /\ Done(t) /\ IsHealth(req[t])
                  => /\ Len(resp[t]) = 1
                     /\ resp[t][1].status = 200 /\ resp[t][1].kind = "json"
                     /\ used[t] # 0
            /\ Done(t) /\ IsUploadPost(req[t])
                  => /\ 404 \notin Statuses(t)
                     /\ resp[t] # <<>>

\* a POST to a path the router does not know has been answered 404
C25_Witness ==
    \E t \in Workers :
        /\ variant = "simple" /\ Done(t)
        /\ req[t].method = "POST" /\ Unrouted(t)
        /\ 404 \in Statuses(t)


\* C26: the file a request writes its upload to always lies inside that
\* request's own temporary directory (simple_app.py) or inside the upload
\* folder (app.py), whatever filename the client declares, including names
\* with path separators, '..' components or an absolute path; hence removing
\* the temporary directory removes the stored upload.
C26_UploadInsideOwnStorage ==
    \A t \in Workers :
        file_path[t] # NoPath =>
            /\ file_path[t][1] = (IF variant = "simple" THEN temp_dir[t] ELSE UPLOAD_FOLDER)
            /\ variant = "flask" => Slash \notin Range(file_path[t][2])
            /\ variant = "simple" /\ temp_dir[t] \notin dirs
                  => file_path[t] \notin DOMAIN files

\* C27: no request gets more than one response: a handler never emits a
\* second status line after it has started sending a response for the same
\* request, including when removing the temporary directory fails after the
\* success response was written.
C27_AtMostOneResponse ==
    \A t \in Workers : Len(resp[t]) <= 1


\* the upload request worker t handles is one the decoding stage rejects:
\* its body is not multipart/form-data, has no part named `file`, or names
\* the file with the empty string; in app.py also when the name's extension
\* is not an allowed one
DecodeRejected(t) ==
    /\ IsUploadPost(req[t])
    /\ \/ req[t].ctype # "multipart"
       \/ ~req[t].has_file
       \/ req[t].filename = <<>>
       \/ variant = "flask" /\ ~ExtensionAllowed(req[t].filename)

\* C28: a request rejected at the decoding stage (Content-Type not multipart,
\* no `file` field, empty filename; in app.py also a disallowed extension)
\* creates no temporary file or directory and does not initialise the backend
\* singleton.
C28_DecodeRejectionHasNoEffect ==
    \A t \in Workers :
        DecodeRejected(t) =>
            /\ temp_dir[t] = 0 /\ file_path[t] = NoPath
            /\ ~ctor[t] /\ used[t] = 0
            /\ valid[t] \in {"none", "False"} /\ result[t] = NoResult

\* app.py has answered an upload it rejected for the extension of its name
C28_Witness ==
    \E t \in Workers :
        /\ variant = "flask" /\ Done(t) /\ DecodeRejected(t)
        /\ req[t].has_file /\ req[t].filename # <<>>
        /\ resp[t] # <<>>

====
